---- MODULE Spec2Model ----
(***************************************************************************)
(* Model of pong.py: the ball / paddle / brick simulation and the round    *)
(* and life state machine of class Game.                                   *)
(*                                                                         *)
(* Coordinates are canvas pixels.  A bounding box is the 4-tuple           *)
(* <<left, top, right, bottom>> that canvas.coords returns.  The Tk        *)
(* canvas, its key bindings and its `after` scheduler are represented by   *)
(* the variables tagged / texts / space_bound / timers.                    *)
(***************************************************************************)
EXTENDS Integers, Sequences, FiniteSets, TLC

VARIABLES
    lives,        \* Game.lives
    items,        \* Game.items: the handles registered in the world registry
    ball,         \* Game.ball: [item, coords, direction, speed]
    paddle,       \* Game.paddle: [coords, ball]; ball is a ball handle or None
    bricks,       \* Brick.hits of every Brick object, by canvas handle
    tagged,       \* canvas.find_withtag('brick'): brick handles still on the canvas
    texts,        \* prompts currently drawn on the canvas (the HUD excluded)
    space_bound,  \* TRUE while '<space>' is bound to start_game
    timers,       \* callbacks handed to after(), not yet run: name -> count
    error,        \* TRUE once a handler has raised (Ball.update on speed None)
    hist          \* history: the handler that ran last and what it saw

vars == <<lives, items, ball, paddle, bricks, tagged, texts, space_bound,
          timers, error, hist>>

\* Python's None, and a value that is not None, as a tuple of length 0 or 1.
None == <<>>
Some(v) == <<v>>

----------------------------------------------------------------------------
(* Bounds of the model.                                                    *)

\* Half of the play-field width.  pong.py uses a field of 610 pixels; the
\* model explores a narrower field of even width so that whole games, down
\* to the last brick, are explored exhaustively.
HalfWidth == 60

----------------------------------------------------------------------------
(* Program constants.                                                      *)

width == 2 * HalfWidth              \* Game.width (self.width = 610)
height == 400                       \* Game.height
InitLives == 3                      \* Game.lives at construction
radius == 10                        \* Ball.radius
InitSpeed == 10                     \* Ball.speed at construction
InitDirection == <<1, -1>>          \* Ball.direction at construction
BallY == 310                        \* y of a new ball (add_ball)
PaddleWidth == 80                   \* Paddle.width
PaddleHeight == 10                  \* Paddle.height
PaddleY == 326                      \* y of the paddle (Game.__init__)
PaddleStep == 10                    \* offset of the <Left>/<Right> bindings
BrickWidth == 75                    \* Brick.width
BrickHeight == 20                   \* Brick.height
GridLeft == 5                       \* range(5, self.width - 5, 75): start and margin
PaddleItem == 1                     \* canvas handle of the paddle, the first item created

----------------------------------------------------------------------------
(* Geometry and the canvas.                                                *)

\* range(5, self.width - 5, 75): the x_position of every brick column.
Columns == {x \in GridLeft..(width - GridLeft - 1) : (x - GridLeft) % BrickWidth = 0}

NumCols == Cardinality(Columns)

\* Canvas handles of the bricks: the loop of Game.__init__ creates three
\* bricks per column right after the paddle, so they are 2, 3, 4, ...
BrickItems == 2..(1 + 3 * NumCols)

BrickColumn(b) == (b - 2) \div 3
BrickRow(b) == (b - 2) % 3

\* add_brick(x_position + 37.5, 50 | 70 | 90, hits) and Brick.__init__:
\* the box is centre -/+ (37.5, 10), so its left edge is x_position itself.
BrickCoords(b) ==
    LET x0 == GridLeft + BrickWidth * BrickColumn(b)
        y == 50 + 20 * BrickRow(b)
    IN  <<x0, y - BrickHeight \div 2, x0 + BrickWidth, y + BrickHeight \div 2>>

\* hits argument of the three add_brick calls: 2 for the top row, else 1.
InitHits(b) == IF BrickRow(b) = 0 THEN 2 ELSE 1

\* Handle of the n-th ball created; ball handles are never registered.
BallItem(n) == 1 + 3 * NumCols + n

IsBrick(x) == x \in BrickItems

\* Paddle.__init__: box around (x, y) of size width x height.
NewPaddleCoords(x, y) ==
    <<x - PaddleWidth \div 2, y - PaddleHeight \div 2,
      x + PaddleWidth \div 2, y + PaddleHeight \div 2>>

\* Ball.__init__: box around (x, y) of the ball's radius.
NewBall(n, x, y) ==
    [item |-> BallItem(n),
     coords |-> <<x - radius, y - radius, x + radius, y + radius>>,
     direction |-> InitDirection,
     speed |-> Some(InitSpeed)]

\* Game.ball before the first ball exists (self.ball = None).
NoBall ==
    [item |-> BallItem(0), coords |-> <<0, 0, 0, 0>>,
     direction |-> InitDirection, speed |-> None]

\* canvas.move(item, dx, dy)
Moved(c, dx, dy) == <<c[1] + dx, c[2] + dy, c[3] + dx, c[4] + dy>>

\* Two closed boxes intersect (canvas.find_overlapping counts touching).
Overlap(a, b) == a[1] <= b[3] /\ b[1] <= a[3] /\ a[2] <= b[4] /\ b[2] <= a[4]

\* The program state as one record, so that handlers compose as the calls
\* of the source do.
Cur == [lives |-> lives, items |-> items, ball |-> ball, paddle |-> paddle,
        bricks |-> bricks, tagged |-> tagged, texts |-> texts,
        space_bound |-> space_bound, timers |-> timers, error |-> error,
        hist |-> hist]

\* GameObject.get_position: canvas.coords of the object's item.
get_position(s, x) ==
    IF x = PaddleItem THEN s.paddle.coords
    ELSE IF x = s.ball.item THEN s.ball.coords
    ELSE BrickCoords(x)

\* canvas.find_overlapping(*box): the handles of the canvas items that
\* overlap the box: the paddle, the bricks still on the canvas, the ball.
find_overlapping(s, box) ==
    {x \in {PaddleItem} \cup s.tagged : Overlap(get_position(s, x), box)}
      \cup (IF Overlap(s.ball.coords, box) THEN {s.ball.item} ELSE {})

\* A set of handles as the tuple Tk returns, in stacking (creation) order.
RECURSIVE InOrder(_)
InOrder(S) ==
    IF S = {} THEN <<>>
    ELSE LET m == CHOOSE x \in S : \A y \in S : x <= y
         IN  <<m>> \o InOrder(S \ {m})

----------------------------------------------------------------------------
(* Brick                                                                   *)

\* Brick.hit with the removal test off by one: a brick is deleted only
\* when its hits drop below zero.
hit_late_delete(s, b) ==
    LET h == s.bricks[b] - 1
    IN  IF h < 0
        THEN [s EXCEPT !.bricks[b] = h, !.tagged = @ \ {b}]
        ELSE [s EXCEPT !.bricks[b] = h]

\* Brick.hit never deleting the canvas item.
hit_no_delete(s, b) == [s EXCEPT !.bricks[b] = @ - 1]

\* Brick.hit
hit(s, b) ==
    LET h == s.bricks[b] - 1
    IN  IF h = 0
        THEN [s EXCEPT !.bricks[b] = h, !.tagged = @ \ {b}]
        ELSE [s EXCEPT !.bricks[b] = h]

----------------------------------------------------------------------------
(* Ball                                                                    *)

\* Ball.update with the left-wall test strict (coords[0] < 0).
update_strict_left(s) ==
    LET c == s.ball.coords
        d == s.ball.direction
        dx == IF c[1] < 0 \/ c[3] >= width THEN -d[1] ELSE d[1]
        dy == IF c[2] <= 0 THEN -d[2] ELSE d[2]
    IN  IF s.ball.speed = None
        THEN [s EXCEPT !.ball.direction = <<dx, dy>>, !.error = TRUE]
        ELSE [s EXCEPT !.ball.direction = <<dx, dy>>,
                       !.ball.coords = Moved(c, dx * s.ball.speed[1],
                                                dy * s.ball.speed[1])]

\* Ball.update storing the scaled displacement back into the direction.
update_scaled_direction(s) ==
    LET c == s.ball.coords
        d == s.ball.direction
        dx == IF c[1] <= 0 \/ c[3] >= width THEN -d[1] ELSE d[1]
        dy == IF c[2] <= 0 THEN -d[2] ELSE d[2]
    IN  IF s.ball.speed = None
        THEN [s EXCEPT !.ball.direction = <<dx, dy>>, !.error = TRUE]
        ELSE [s EXCEPT !.ball.direction = <<dx * s.ball.speed[1], dy * s.ball.speed[1]>>,
                       !.ball.coords = Moved(c, dx * s.ball.speed[1],
                                                dy * s.ball.speed[1])]

\* Ball.update testing the left wall only.
update_left_wall_only(s) ==
    LET c == s.ball.coords
        d == s.ball.direction
        dx == IF c[1] <= 0 THEN -d[1] ELSE d[1]
        dy == IF c[2] <= 0 THEN -d[2] ELSE d[2]
    IN  IF s.ball.speed = None
        THEN [s EXCEPT !.ball.direction = <<dx, dy>>, !.error = TRUE]
        ELSE [s EXCEPT !.ball.direction = <<dx, dy>>,
                       !.ball.coords = Moved(c, dx * s.ball.speed[1],
                                                dy * s.ball.speed[1])]

\* Ball.update: bounce on the side walls and the ceiling, then move by
\* direction * speed.  With speed None the multiplication raises after the
\* direction has been changed and before the ball is moved.
update(s) ==
    LET c == s.ball.coords
        d == s.ball.direction
        dx == IF c[1] <= 0 \/ c[3] >= width THEN -d[1] ELSE d[1]
        dy == IF c[2] <= 0 THEN -d[2] ELSE d[2]
    IN  IF s.ball.speed = None
        THEN [s EXCEPT !.ball.direction = <<dx, dy>>, !.error = TRUE]
        ELSE [s EXCEPT !.ball.direction = <<dx, dy>>,
                       !.ball.coords = Moved(c, dx * s.ball.speed[1],
                                                dy * s.ball.speed[1])]

\* Ball.collide flipping dir.y once per overlapping object.
RECURSIVE FlipEach(_, _)
FlipEach(d, n) == IF n = 0 THEN d ELSE FlipEach(<<d[1], -d[2]>>, n - 1)

bounce_per_object(s, game_objects) ==
    LET c == s.ball.coords
        d == s.ball.direction
        x2 == c[1] + c[3]
    IN  IF Len(game_objects) > 1 THEN FlipEach(d, Len(game_objects))
        ELSE IF Len(game_objects) = 1
        THEN IF x2 > 2 * get_position(s, game_objects[1])[3] THEN <<1, d[2]>>
             ELSE IF x2 < 2 * get_position(s, game_objects[1])[1] THEN <<-1, d[2]>>
             ELSE <<d[1], -d[2]>>
        ELSE d

\* Ball.collide reversing dir.x at an edge instead of forcing its sign.
bounce_reverse_x(s, game_objects) ==
    LET c == s.ball.coords
        d == s.ball.direction
        x2 == c[1] + c[3]
    IN  IF Len(game_objects) > 1 THEN <<d[1], -d[2]>>
        ELSE IF Len(game_objects) = 1
        THEN IF x2 > 2 * get_position(s, game_objects[1])[3] THEN <<-d[1], d[2]>>
             ELSE IF x2 < 2 * get_position(s, game_objects[1])[1] THEN <<-d[1], d[2]>>
             ELSE <<d[1], -d[2]>>
        ELSE d

\* The direction part of Ball.collide (lines 86-98).
bounce(s, game_objects) ==
    LET c == s.ball.coords
        d == s.ball.direction
        x2 == c[1] + c[3]            \* twice x_coordinate
    IN  IF Len(game_objects) > 1 THEN <<d[1], -d[2]>>
        ELSE IF Len(game_objects) = 1
        THEN LET o == get_position(s, game_objects[1])
             IN  IF x2 > 2 * o[3] THEN <<1, d[2]>>
                 ELSE IF x2 < 2 * o[1] THEN <<-1, d[2]>>
                 ELSE <<d[1], -d[2]>>
        ELSE d

\* Ball.collide with the brick loop inside the single-object branch: bricks
\* are hit only when exactly one object overlaps.
hit_bricks_single(s, game_objects) ==
    IF Len(game_objects) = 1 /\ IsBrick(game_objects[1])
    THEN hit(s, game_objects[1])
    ELSE s

\* The loop of Ball.collide (lines 100-102): hit every brick of the list.
RECURSIVE hit_bricks(_, _)
hit_bricks(s, game_objects) ==
    IF game_objects = <<>> THEN s
    ELSE LET o == Head(game_objects)
         IN  hit_bricks(IF IsBrick(o) THEN hit(s, o) ELSE s, Tail(game_objects))

\* Ball.collide
collide(s, game_objects) ==
    hit_bricks([s EXCEPT !.ball.direction = bounce(s, game_objects)], game_objects)

----------------------------------------------------------------------------
(* Paddle                                                                  *)

\* Paddle.move testing the left bound only.
paddle_move_left_bound(s, offset) ==
    LET c == s.paddle.coords
    IN  IF c[1] + offset >= 0
        THEN LET s1 == [s EXCEPT !.paddle.coords = Moved(c, offset, 0)]
             IN  IF s.paddle.ball = Some(s.ball.item)
                 THEN [s1 EXCEPT !.ball.coords = Moved(@, offset, 0)]
                 ELSE s1
        ELSE s

\* Paddle.move carrying the docked ball even when the paddle's own move is
\* rejected.
paddle_move_ball_always(s, offset) ==
    LET c == s.paddle.coords
        s1 == IF c[1] + offset >= 0 /\ c[3] + offset <= width
              THEN [s EXCEPT !.paddle.coords = Moved(c, offset, 0)]
              ELSE s
    IN  IF s.paddle.ball = Some(s.ball.item)
        THEN [s1 EXCEPT !.ball.coords = Moved(@, offset, 0)]
        ELSE s1

\* Paddle.move: rejected as a whole when the box would leave [0, width];
\* otherwise the paddle moves and carries the ball it references.
paddle_move(s, offset) ==
    LET c == s.paddle.coords
    IN  IF c[1] + offset >= 0 /\ c[3] + offset <= width
        THEN LET s1 == [s EXCEPT !.paddle.coords = Moved(c, offset, 0)]
             IN  IF s.paddle.ball = Some(s.ball.item)
                 THEN [s1 EXCEPT !.ball.coords = Moved(@, offset, 0)]
                 ELSE s1
        ELSE s

----------------------------------------------------------------------------
(* Game                                                                    *)

\* Game.check_collisions resolving every handle find_overlapping returns,
\* registered or not.
objects_unfiltered(s) == InOrder(find_overlapping(s, s.ball.coords))

\* Game.check_collisions
objects(s) ==
    LET found == InOrder(find_overlapping(s, s.ball.coords))
    IN  SelectSeq(found, LAMBDA x : x \in s.items)

check_collisions(s) ==
    LET game_objects == objects(s)
        s1 == collide(s, game_objects)
    IN  [s1 EXCEPT !.hist.objects = game_objects,
                   !.hist.direction = s1.ball.direction]

\* self.after(ms, callback)
after(s, callback) == [s EXCEPT !.timers[callback] = @ + 1]

\* Game.add_ball placing the new ball above the middle of the field.
add_ball_mid_field(s) ==
    LET n == s.ball.item - BallItem(0) + 1
        b == NewBall(n, width \div 2, BallY)
    IN  [s EXCEPT !.ball = b, !.paddle.ball = Some(b.item)]

\* Game.add_ball: the old ball is deleted, a new one is created above the
\* paddle's current centre and docked on the paddle.
add_ball(s) ==
    LET c == s.paddle.coords
        n == s.ball.item - BallItem(0) + 1
        b == NewBall(n, (c[1] + c[3]) \div 2, BallY)
    IN  [s EXCEPT !.ball = b, !.paddle.ball = Some(b.item)]

\* Game.setup_game
setup_game(s) ==
    [add_ball(s) EXCEPT !.texts = @ \cup {"Press Space to start"},
                        !.space_bound = TRUE]

\* Game.game_loop scheduling the reset whether or not lives are left.
game_loop_reset_always(s) ==
    LET s1 == check_collisions(s)
        num_bricks == Cardinality(s1.tagged)
    IN  IF num_bricks = 0
        THEN [s1 EXCEPT !.ball.speed = None,
                        !.texts = @ \cup {"You win!", "Press Space to play again"},
                        !.space_bound = TRUE]
        ELSE IF s1.ball.coords[4] >= height
        THEN LET s2 == [s1 EXCEPT !.ball.speed = None, !.lives = @ - 1]
             IN  IF s2.lives < 0
                 THEN after([s2 EXCEPT !.texts = @ \cup {"Game over!"}], "setup_game")
                 ELSE after(s2, "setup_game")
        ELSE LET s2 == update(s1)
             IN  IF s2.error THEN s2 ELSE after(s2, "game_loop")

\* Game.game_loop leaving the ball active when the round is won.
game_loop_win_active(s) ==
    LET s1 == check_collisions(s)
        num_bricks == Cardinality(s1.tagged)
    IN  IF num_bricks = 0
        THEN [s1 EXCEPT !.texts = @ \cup {"You win!", "Press Space to play again"},
                        !.space_bound = TRUE]
        ELSE IF s1.ball.coords[4] >= height
        THEN LET s2 == [s1 EXCEPT !.ball.speed = None, !.lives = @ - 1]
             IN  IF s2.lives < 0
                 THEN [s2 EXCEPT !.texts = @ \cup {"Game over!"}]
                 ELSE after(s2, "setup_game")
        ELSE LET s2 == update(s1)
             IN  IF s2.error THEN s2 ELSE after(s2, "game_loop")

\* Game.game_loop ending the game when no life is left (lives <= 0).
game_loop_over_at_zero(s) ==
    LET s1 == check_collisions(s)
        num_bricks == Cardinality(s1.tagged)
    IN  IF num_bricks = 0
        THEN [s1 EXCEPT !.ball.speed = None,
                        !.texts = @ \cup {"You win!", "Press Space to play again"},
                        !.space_bound = TRUE]
        ELSE IF s1.ball.coords[4] >= height
        THEN LET s2 == [s1 EXCEPT !.ball.speed = None, !.lives = @ - 1]
             IN  IF s2.lives <= 0
                 THEN [s2 EXCEPT !.texts = @ \cup {"Game over!"}]
                 ELSE after(s2, "setup_game")
        ELSE LET s2 == update(s1)
             IN  IF s2.error THEN s2 ELSE after(s2, "game_loop")

\* Game.game_loop with the second test an `if` of its own instead of an
\* `elif`: after the win branch the ball-lost test and its else still run.
game_loop_if_for_elif(s) ==
    LET s1 == check_collisions(s)
        num_bricks == Cardinality(s1.tagged)
        s2 == IF num_bricks = 0
              THEN [s1 EXCEPT !.ball.speed = None,
                              !.texts = @ \cup {"You win!", "Press Space to play again"},
                              !.space_bound = TRUE]
              ELSE s1
    IN  IF s2.ball.coords[4] >= height
        THEN LET s3 == [s2 EXCEPT !.ball.speed = None, !.lives = @ - 1]
             IN  IF s3.lives < 0
                 THEN [s3 EXCEPT !.texts = @ \cup {"Game over!"}]
                 ELSE after(s3, "setup_game")
        ELSE LET s3 == update(s2)
             IN  IF s3.error THEN s3 ELSE after(s3, "game_loop")

\* Game.game_loop
game_loop(s) ==
    LET s1 == check_collisions(s)
        num_bricks == Cardinality(s1.tagged)
    IN  IF num_bricks = 0
        THEN [s1 EXCEPT !.ball.speed = None,
                        !.texts = @ \cup {"You win!", "Press Space to play again"},
                        !.space_bound = TRUE]
        ELSE IF s1.ball.coords[4] >= height
        THEN LET s2 == [s1 EXCEPT !.ball.speed = None, !.lives = @ - 1]
             IN  IF s2.lives < 0
                 THEN [s2 EXCEPT !.texts = @ \cup {"Game over!"}]
                 ELSE after(s2, "setup_game")
        ELSE LET s2 == update(s1)
             IN  IF s2.error THEN s2 ELSE after(s2, "game_loop")

\* Game.start_game leaving the ball docked.
start_game_docked(s) ==
    game_loop([s EXCEPT !.space_bound = FALSE,
                        !.texts = @ \ {"Press Space to start"}])

\* Game.start_game leaving '<space>' bound.
start_game_still_bound(s) ==
    game_loop([s EXCEPT !.texts = @ \ {"Press Space to start"},
                        !.paddle.ball = None])

\* Game.start_game
start_game(s) ==
    game_loop([s EXCEPT !.space_bound = FALSE,
                        !.texts = @ \ {"Press Space to start"},
                        !.paddle.ball = None])

\* Game.__init__
NewGame ==
    LET s0 == [lives |-> InitLives,
               items |-> {PaddleItem} \cup BrickItems,
               ball |-> NoBall,
               paddle |-> [coords |-> NewPaddleCoords(width \div 2, PaddleY),
                           ball |-> None],
               bricks |-> [b \in BrickItems |-> InitHits(b)],
               tagged |-> BrickItems,
               texts |-> {},
               space_bound |-> FALSE,
               timers |-> [cb \in {"game_loop", "setup_game"} |-> 0],
               error |-> FALSE,
               hist |-> [op |-> "init", ball |-> NoBall, paddle |-> None,
                         lives |-> InitLives, bricks |-> <<>>, tagged |-> {},
                         texts |-> {}, objects |-> <<>>,
                         direction |-> InitDirection]]
    IN  setup_game(s0)

----------------------------------------------------------------------------
(* The state machine: one action per event the Tk main loop dispatches.    *)

InitAs(s) ==
    /\ lives = s.lives
    /\ items = s.items
    /\ ball = s.ball
    /\ paddle = s.paddle
    /\ bricks = s.bricks
    /\ tagged = s.tagged
    /\ texts = s.texts
    /\ space_bound = s.space_bound
    /\ timers = s.timers
    /\ error = s.error
    /\ hist = s.hist

Set(s) ==
    /\ lives' = s.lives
    /\ items' = s.items
    /\ ball' = s.ball
    /\ paddle' = s.paddle
    /\ bricks' = s.bricks
    /\ tagged' = s.tagged
    /\ texts' = s.texts
    /\ space_bound' = s.space_bound
    /\ timers' = s.timers
    /\ error' = s.error
    /\ hist' = s.hist

\* The state a handler starts from: hist names the handler and keeps what it
\* found; check_collisions adds the objects it resolved and the direction
\* it left.
Seen(op) ==
    [Cur EXCEPT !.hist = [op |-> op, ball |-> ball, paddle |-> paddle,
                          lives |-> lives, bricks |-> bricks, tagged |-> tagged,
                          texts |-> texts, objects |-> <<>>,
                          direction |-> ball.direction]]

Init == InitAs(NewGame)

\* <space> while it is bound
Space ==
    /\ space_bound
    /\ Set(start_game(Seen("space")))

\* <Left>
Left == Set(paddle_move(Seen("left"), -PaddleStep))

\* <Right>
Right == Set(paddle_move(Seen("right"), PaddleStep))

\* the tick scheduled by after(50, self.game_loop) fires
Tick ==
    /\ timers["game_loop"] > 0
    /\ Set(game_loop([Seen("tick") EXCEPT !.timers["game_loop"] = @ - 1]))

\* the reset scheduled by after(1000, self.setup_game) fires
Reset ==
    /\ timers["setup_game"] > 0
    /\ Set(setup_game([Seen("reset") EXCEPT !.timers["setup_game"] = @ - 1]))

Next == Space \/ Left \/ Right \/ Tick \/ Reset

Spec == Init /\ [][Next]_vars

----------------------------------------------------------------------------
(* The round phases of the specification, read off the program state.      *)

AwaitingStart == "Press Space to start" \in texts
Running == timers["game_loop"] > 0
BallLost == timers["setup_game"] > 0
RoundWon == "You win!" \in texts
GameOver == "Game over!" \in texts

NoTimers == timers = [cb \in {"game_loop", "setup_game"} |-> 0]

\* The handler that ran last was a run of game_loop.
WasLoop == hist.op \in {"tick", "space"}

\* ... and it took the ball-lost branch: bricks remain after the collisions
\* and the ball's bottom edge had reached the bottom of the field.
WasLoss == WasLoop /\ tagged /= {} /\ hist.ball.coords[4] >= height

----------------------------------------------------------------------------
(* Round and life state machine.                                           *)

\* C1: a launch signal received after the round is won re-enters
\* AwaitingStart / Running with the whole brick grid repopulated and the
\* ball docked on the paddle with its speed active.
C1_RestartAfterWin ==
    (hist.op = "space" /\ "You win!" \in hist.texts)
        => /\ tagged = BrickItems
           /\ \A b \in BrickItems : bricks[b] = InitHits(b)
           /\ paddle.ball = Some(ball.item)
           /\ ball.speed = Some(InitSpeed)
           /\ (AwaitingStart \/ Running)

\* C2: a tick that loses the ball with lives = 0 leaves lives = -1 and the
\* game over; once the game is over no tick and no reset is pending, lives
\* stays -1, <space> is not bound, and the game stays over.
C2_GameOverInv ==
    /\ (WasLoss /\ hist.lives = 0) => (lives = -1 /\ GameOver)
    /\ GameOver => (lives = -1 /\ NoTimers /\ ~space_bound)

C2_GameOverStep ==
    GameOver => /\ GameOver'
                /\ lives' = lives
                /\ hist'.op \in {"left", "right"}

C2_GameOver == []C2_GameOverInv /\ [][C2_GameOverStep]_vars

C2_Witness == WasLoss /\ hist.lives = 0 /\ GameOver

\* C3: a tick that loses the ball with lives >= 1 takes exactly one life,
\* deactivates the ball and leaves exactly one reset pending; until the reset
\* fires no tick is pending and <space> is not bound, so only paddle moves
\* and the reset itself can happen; the reset leaves the game awaiting the
\* start with a new ball of speed 10 and direction (1, -1), docked on the
\* paddle and centred on the paddle's current position.
C3_LifeLostInv ==
    /\ (WasLoss /\ hist.lives >= 1)
          => /\ lives = hist.lives - 1
             /\ ball.speed = None
             /\ timers = [cb \in {"game_loop", "setup_game"} |->
                             IF cb = "setup_game" THEN 1 ELSE 0]
    /\ BallLost
          => /\ timers["setup_game"] = 1
             /\ timers["game_loop"] = 0
             /\ ~space_bound
             /\ ~AwaitingStart
    /\ hist.op = "reset"
          => /\ AwaitingStart /\ space_bound /\ NoTimers
             /\ lives = hist.lives
             /\ ball.item /= hist.ball.item
             /\ ball.speed = Some(InitSpeed)
             /\ ball.direction = <<1, -1>>
             /\ paddle.ball = Some(ball.item)
             /\ paddle.coords = hist.paddle.coords
             /\ ball.coords[1] + ball.coords[3] = paddle.coords[1] + paddle.coords[3]
             /\ ball.coords[3] - ball.coords[1] = 2 * radius
             /\ ball.coords[2] = BallY - radius /\ ball.coords[4] = BallY + radius

C3_LifeLostStep == BallLost => hist'.op \in {"left", "right", "reset"}

C3_LifeLost == []C3_LifeLostInv /\ [][C3_LifeLostStep]_vars

\* The reset after the loss of the ball at lives = 1, the paddle having been
\* moved away from the middle of the field.
C3_Witness ==
    /\ hist.op = "reset" /\ lives = 0
    /\ paddle.coords /= NewPaddleCoords(width \div 2, PaddleY)

\* C4: a tick that finds no brick left after resolving the collisions wins
\* the round: the ball is deactivated and stays where it was, lives is
\* unchanged and no tick or reset is pending.
C4_RoundWon ==
    (hist.op = "tick" /\ tagged = {})
        => /\ RoundWon
           /\ ball.speed = None
           /\ ball.coords = hist.ball.coords
           /\ lives = hist.lives
           /\ NoTimers

\* The tick that destroys the last brick.
C4_Witness ==
    /\ hist.op = "tick" /\ tagged = {} /\ hist.tagged /= {}
    /\ RoundWon

----------------------------------------------------------------------------
(* Paddle movement and launch.                                             *)

\* The offset of the paddle move that ran last.
Offset == IF hist.op = "left" THEN -PaddleStep ELSE PaddleStep

WasMove == hist.op \in {"left", "right"}

\* The move that ran last would have taken the paddle out of the field.
WouldExit ==
    \/ hist.paddle.coords[1] + Offset < 0
    \/ hist.paddle.coords[3] + Offset > width

\* C5: a paddle move that would leave [0, width] moves neither the paddle
\* nor the docked ball; any other move shifts the paddle, and the ball if
\* one is docked, by exactly the offset; the paddle's box is always within
\* [0, width].
C5_PaddleMove ==
    /\ paddle.coords[1] >= 0 /\ paddle.coords[3] <= width
    /\ (WasMove /\ WouldExit)
          => (paddle = hist.paddle /\ ball = hist.ball)
    /\ (WasMove /\ ~WouldExit)
          => /\ paddle.coords = Moved(hist.paddle.coords, Offset, 0)
             /\ paddle.ball = hist.paddle.ball
             /\ hist.paddle.ball /= None
                   => ball.coords = Moved(hist.ball.coords, Offset, 0)

\* A move rejected at the left wall while the ball is docked.
C5_Witness ==
    /\ hist.op = "left" /\ WouldExit
    /\ hist.paddle.ball /= None
    /\ paddle.coords /= NewPaddleCoords(width \div 2, PaddleY)

\* C6: a tick becomes pending in AwaitingStart only by the launch signal;
\* the launch clears the paddle's reference to the ball, and a paddle move
\* made after the launch leaves the ball exactly as it was.
C6_Launch ==
    /\ AwaitingStart => ~Running
    /\ ("Press Space to start" \in hist.texts /\ Running) => hist.op = "space"
    /\ hist.op = "space" => paddle.ball = None
    /\ (WasMove /\ ~("Press Space to start" \in hist.texts)) => ball = hist.ball

\* A paddle move accepted while the launched ball is in flight.
C6_Witness ==
    /\ WasMove /\ Running /\ ~WouldExit
    /\ paddle.coords /= hist.paddle.coords
    /\ ball.coords = hist.ball.coords

----------------------------------------------------------------------------
(* Collision resolution.  hist.objects is the list check_collisions handed *)
(* to Ball.collide, hist.direction the direction collide left, hist.ball   *)
(* and hist.bricks the ball and the hit points before it.                  *)

Objects == {hist.objects[i] : i \in 1..Len(hist.objects)}

\* Position of a resolved object at the time of the collision.
PositionThen(x) == IF x = PaddleItem THEN hist.paddle.coords ELSE BrickCoords(x)

\* C7: with two or more objects overlapping, among them two bricks of one
\* hit point each, both bricks are removed in that tick and the resolver
\* flips dir.y once and leaves dir.x.
C7_MultiOverlap ==
    \A b1, b2 \in Objects \cap BrickItems :
        (b1 /= b2 /\ hist.bricks[b1] = 1 /\ hist.bricks[b2] = 1)
            => /\ b1 \notin tagged /\ b2 \notin tagged
               /\ bricks[b1] = 0 /\ bricks[b2] = 0
               /\ hist.direction = <<hist.ball.direction[1], -hist.ball.direction[2]>>

C7_Witness ==
    \E b1, b2 \in Objects \cap BrickItems :
        /\ b1 /= b2 /\ hist.bricks[b1] = 1 /\ hist.bricks[b2] = 1
        /\ b1 \notin tagged /\ b2 \notin tagged
        /\ Len(hist.objects) >= 2

\* C8: with exactly one object overlapping, a ball whose midpoint is right
\* of the object's right edge gets dir.x = 1, one whose midpoint is left of
\* its left edge gets dir.x = -1, both with dir.y kept; otherwise dir.y is
\* flipped and dir.x kept.
C8_EdgeAngle ==
    Len(hist.objects) = 1 =>
        LET o == PositionThen(hist.objects[1])
            mid2 == hist.ball.coords[1] + hist.ball.coords[3]
            d == hist.ball.direction
        IN  /\ mid2 > 2 * o[3] => hist.direction = <<1, d[2]>>
            /\ mid2 < 2 * o[1] => hist.direction = <<-1, d[2]>>
            /\ (mid2 <= 2 * o[3] /\ mid2 >= 2 * o[1])
                  => hist.direction = <<d[1], -d[2]>>

\* A ball moving left whose midpoint is right of the single object's right
\* edge: dir.x is forced from -1 to 1.
C8_Witness ==
    /\ Len(hist.objects) = 1
    /\ hist.ball.coords[1] + hist.ball.coords[3] > 2 * PositionThen(hist.objects[1])[3]
    /\ hist.ball.direction[1] = -1
    /\ hist.direction[1] = 1

\* C9: when exactly one brick overlaps the ball, a brick of one hit point
\* is removed and a brick of two is left on the canvas with one; a brick
\* that is removed is never handed to the resolver again.
C9_SingleBrick ==
    /\ (Len(hist.objects) = 1 /\ IsBrick(hist.objects[1]))
          => LET b == hist.objects[1]
             IN  /\ hist.bricks[b] = 1 => (b \notin tagged /\ bricks[b] = 0)
                 /\ hist.bricks[b] = 2 => (b \in tagged /\ bricks[b] = 1)
    /\ \A b \in Objects \cap BrickItems : hist.bricks[b] >= 1 /\ b \in hist.tagged

\* A top-row brick hit alone: it loses one of its two hit points and stays.
C9_Witness ==
    /\ Len(hist.objects) = 1 /\ IsBrick(hist.objects[1])
    /\ hist.bricks[hist.objects[1]] = 2
    /\ hist.objects[1] \in tagged

\* The run of game_loop that ran last went on to Ball.update.
WasAdvance == WasLoop /\ tagged /= {} /\ hist.ball.coords[4] < height

\* C10: Ball.update turns a ball at the left wall moving left to the right,
\* a ball at the right wall moving right to the left, and a ball at the
\* ceiling moving up downwards.  A ball whose bottom edge has reached the
\* bottom of the field is neither moved nor turned by Ball.update: that run
\* of game_loop deactivates it and schedules no further tick.
C10_BoundaryBounce ==
    /\ WasAdvance =>
          /\ (hist.ball.coords[1] <= 0 /\ hist.direction[1] = -1)
                => ball.direction[1] = 1
          /\ (hist.ball.coords[3] >= width /\ hist.direction[1] = 1)
                => ball.direction[1] = -1
          /\ (hist.ball.coords[2] <= 0 /\ hist.direction[2] = -1)
                => ball.direction[2] = 1
          /\ ball.coords = Moved(hist.ball.coords, InitSpeed * ball.direction[1],
                                 InitSpeed * ball.direction[2])
    /\ (WasLoop /\ hist.ball.coords[4] >= height)
          => /\ ball.coords = hist.ball.coords
             /\ ball.direction = hist.direction
             /\ ball.speed = None
             /\ ~Running

\* A ball at the ceiling, moving up, has been turned downwards.
C10_Witness ==
    /\ WasAdvance
    /\ hist.ball.coords[2] <= 0 /\ hist.direction[2] = -1
    /\ ball.direction[2] = 1

----------------------------------------------------------------------------
(* Invariants of the ball, the lives and the bricks.                       *)

\* C11: both components of the ball's direction are -1 or 1, and the
\* ball's speed is 10 or inactive (None), in every reachable state.
C11_BallInvariant ==
    /\ ball.direction[1] \in {-1, 1}
    /\ ball.direction[2] \in {-1, 1}
    /\ ball.speed \in {None, Some(InitSpeed)}

\* A deactivated ball whose direction has been turned in both components.
C11_Witness ==
    /\ ball.direction = <<-1, 1>>
    /\ ball.speed = None
    /\ hist.direction /= hist.ball.direction

\* C12: lives starts at 3 and stays within -1..3; it changes only in a run
\* of game_loop that loses the ball, and then by exactly -1; the launch,
\* paddle moves and resets leave it alone; the game is over exactly when
\* lives < 0, that is after the fourth loss.
C12_Lives ==
    /\ lives \in -1..InitLives
    /\ hist.op = "init" => lives = InitLives
    /\ WasLoss => lives = hist.lives - 1
    /\ ~WasLoss => lives = hist.lives
    /\ hist.op \in {"space", "left", "right", "reset"} => lives = hist.lives
    /\ GameOver <=> lives < 0
    /\ GameOver => InitLives - lives = 4

\* The third loss of a ball: no life is left and the game is not over.
C12_Witness == WasLoss /\ hist.lives = 1 /\ lives = 0 /\ ~GameOver /\ BallLost

\* C13: the brick entries of the world registry are exactly the bricks
\* still on the canvas: a destroyed brick leaves the registry in the step
\* that removes it from the canvas.
C13_RegistryIsLive == items \cap BrickItems = tagged

\* C14: every brick's hits is between 0 and its initial value; a brick is
\* on the canvas exactly when its hits is positive; the bricks handed to
\* the resolver are all on the canvas with positive hits, each at most
\* once, and no brick loses more than one hit point in one handler.
C14_BrickHits ==
    /\ \A b \in BrickItems :
          /\ bricks[b] >= 0 /\ bricks[b] <= InitHits(b)
          /\ b \in tagged <=> bricks[b] > 0
          /\ hist.op /= "init" => bricks[b] >= hist.bricks[b] - 1
    /\ \A i, j \in 1..Len(hist.objects) :
          i /= j => hist.objects[i] /= hist.objects[j]
    /\ \A b \in Objects \cap BrickItems :
          b \in hist.tagged /\ hist.bricks[b] > 0

\* A top-row brick destroyed by its second hit.
C14_Witness ==
    \E b \in Objects \cap BrickItems :
        /\ InitHits(b) = 2 /\ hist.bricks[b] = 1
        /\ bricks[b] = 0 /\ b \notin tagged

----------------------------------------------------------------------------
(* Frame conditions of the collision resolution.                           *)

\* The brick was on the canvas and its box met the ball's when the handler
\* that ran last started.
OverlappedThen(b) == b \in hist.tagged /\ Overlap(BrickCoords(b), hist.ball.coords)

\* C15: a run of game_loop takes exactly one hit point from every brick
\* that overlaps the ball, whichever way the direction is changed, and
\* leaves the hits and the presence of every other brick as they were; the
\* paddle stays registered and where it was.
C15_HitFrame ==
    WasLoop =>
        /\ \A b \in BrickItems :
              IF OverlappedThen(b)
              THEN bricks[b] = hist.bricks[b] - 1
              ELSE bricks[b] = hist.bricks[b] /\ (b \in tagged <=> b \in hist.tagged)
        /\ paddle.coords = hist.paddle.coords
        /\ PaddleItem \in items

\* The edge branch: a single brick overlaps, the resolver sets dir.x and
\* leaves dir.y, the brick still loses its hit point, and a brick that does
\* not overlap is left on the canvas.
C15_Witness ==
    /\ WasLoop /\ Len(hist.objects) = 1 /\ IsBrick(hist.objects[1])
    /\ hist.direction[2] = hist.ball.direction[2]
    /\ bricks[hist.objects[1]] = hist.bricks[hist.objects[1]] - 1
    /\ \E b \in tagged : ~OverlappedThen(b)

\* No registered object met the ball's box when the handler that ran last
\* started: neither the paddle nor a brick on the canvas.
NothingOverlappedThen ==
    /\ ~Overlap(hist.paddle.coords, hist.ball.coords)
    /\ \A b \in BrickItems : ~OverlappedThen(b)

\* C16: when no registered object overlaps the ball, the collision
\* resolution of game_loop resolves nothing and changes nothing: the
\* direction it leaves is the ball's, and the hits and the set of the
\* bricks are as before.  The ball's own item overlaps its box but is not
\* registered.
C16_NoOverlap ==
    (WasLoop /\ NothingOverlappedThen)
        => /\ hist.objects = <<>>
           /\ hist.direction = hist.ball.direction
           /\ bricks = hist.bricks
           /\ tagged = hist.tagged

\* An ordinary tick in mid-field: nothing overlaps and the ball moves on.
C16_Witness ==
    /\ hist.op = "tick" /\ NothingOverlappedThen
    /\ ball.item \in find_overlapping(Cur, ball.coords)
    /\ ball.coords /= hist.ball.coords
    /\ tagged /= BrickItems

----------------------------------------------------------------------------
(* Scheduling.                                                             *)

\* C17: at most one callback, a tick or a reset, is pending at any time,
\* and '<space>' is bound only while none is pending, so a launch is never
\* accepted while the game is running or waiting for the reset.
C17_OneCallback ==
    /\ timers["game_loop"] + timers["setup_game"] <= 1
    /\ space_bound => NoTimers

\* A tick has run and rescheduled itself after paddle moves were made in
\* between: one tick is pending and '<space>' is not bound.
C17_Witness ==
    /\ hist.op = "tick" /\ Running /\ ~space_bound
    /\ timers["game_loop"] = 1 /\ timers["setup_game"] = 0
    /\ hist.paddle.coords /= NewPaddleCoords(width \div 2, PaddleY)

\* C18: the paddle references a ball exactly while the game awaits the
\* start; the ball it references is the current one, and that ball's
\* horizontal midpoint is the paddle's.
C18_Docked ==
    /\ paddle.ball /= None <=> AwaitingStart
    /\ (Running \/ RoundWon \/ BallLost \/ GameOver) => paddle.ball = None
    /\ paddle.ball /= None
          => /\ paddle.ball = Some(ball.item)
             /\ ball.coords[1] + ball.coords[3] = paddle.coords[1] + paddle.coords[3]

\* A second ball, docked, after a paddle move was rejected at a wall.
C18_Witness ==
    /\ paddle.ball /= None /\ AwaitingStart
    /\ WasMove /\ WouldExit
    /\ lives < InitLives

\* C19: Ball.update never runs on a deactivated ball: no handler raises,
\* a run of game_loop that moves or turns the ball started with speed 10,
\* and one that started with the speed inactive leaves the ball where it
\* was, with the direction the collision resolution left.
C19_NoUpdateInactive ==
    /\ ~error
    /\ (WasLoop /\ (ball.coords /= hist.ball.coords \/ ball.direction /= hist.direction))
          => hist.ball.speed = Some(InitSpeed)
    /\ (WasLoop /\ hist.ball.speed = None)
          => (ball.coords = hist.ball.coords /\ ball.direction = hist.direction)

\* A launch signal received after the round was won: game_loop ran on the
\* deactivated ball and did not advance it.
C19_Witness ==
    /\ hist.op = "space" /\ "You win!" \in hist.texts
    /\ hist.ball.speed = None
    /\ ball = hist.ball
    /\ ~error

----------------------------------------------------------------------------
(* The ball and the walls.                                                 *)

====
